---- MODULE Spec2Model ----
(***************************************************************************)
(* The CRT function registry (src/runtime/crt/common/packed_func.c) as a   *)
(* byte-level state machine over the caller-supplied buffer, and the RPC   *)
(* session (src/runtime/crt/rpc_server/session.h): its handshake between   *)
(* two sides, and one side's receive and send paths.  The host program     *)
(* (src/runtime/crt/host/main.cc) adds its main loop and its timer.        *)
(*                                                                         *)
(* Memory is an array of bytes.  Offsets 0 .. buffer_size-1 are the        *)
(* caller's buffer; the PtrSize bytes that follow are memory adjacent to   *)
(* the buffer, owned by some other object, which the code can reach with   *)
(* an out-of-range store or read.  Names are sequences of non-zero bytes   *)
(* (C strings without their terminator); function pointers are sequences   *)
(* of PtrSize bytes, least significant byte first.                         *)
(***************************************************************************)
EXTENDS Integers, Sequences, FiniteSets, TLC

\* ---------------------------------------------------------------- bounds
\* Size in bytes of the smaller buffer handed to Create; the larger one is
\* twice that.
BufSize == 15
\* Set calls are modelled while the function count byte is below this.
MaxCount == 3
\* Nonces are 1..MaxNonce (8 bits in the program).
MaxNonce == 3
\* StartSession() is called at most this many times in all.
MaxStarts == 3
\* main() reads at most this many bytes from stdin.
MaxInput == 3
\* The steady clock runs from 1 to this, in microseconds.
MaxClock == 5
\* Timer calls are modelled until this many have succeeded.
MaxTimerLog == 4

\* ------------------------------------------------------ program constants
\* sizeof(void*) of a 32-bit microcontroller target.
PtrSize == 4
\* "assume average function name is around ~10 bytes"
AvgNameLen == 10

one_entry_size_bytes == AvgNameLen + 1 + PtrSize

\* ------------------------------------------------------------- input sets
A10 == <<97, 97, 97, 97, 97, 97, 97, 97, 97, 97>>
B10 == <<98, 98, 98, 98, 98, 98, 98, 98, 98, 98>>
\* "", "a", "ab", "bb", "aaaaaaaaaa", "bbbbbbbbbb"
Names == {<<>>, <<97>>, <<97, 98>>, <<98, 98>>, A10, B10}
\* 0x08001041, 0x08010262
Funcs == {<<65, 16, 0, 8>>, <<98, 2, 1, 8>>}
BufSizes == {BufSize, 2 * BufSize}

VARIABLES
  mem,          \* the buffer followed by the adjacent bytes
  buffer_size,  \* buffer_size_bytes given to Create
  call,         \* the last registry call and what it returned
  crashed,      \* a read ran past the modelled memory
  sess,         \* per side: the Session object's state_, nonce_, session_id_
  chan,         \* per receiving side: the framed messages in flight
  starts,       \* StartSession() calls made so far
  crossed,      \* a side got a start request while its own was pending
  ev,           \* the last session call: which, on which side, from which state
  receive_buffer,        \* side A's receive buffer: the bytes written so far
  has_complete_message,  \* side A's receive_buffer_has_complete_message_
  rx,           \* the last call on side A's receive or send path
  pc,           \* where main() is
  input,        \* what the read() calls on stdin have returned so far
  trace,        \* the calls main() has made into the RPC server
  exit_code,    \* what main() returned (-1 while it runs)
  g_utvm_timer_running,
  g_utvm_start_time,
  now,          \* the steady clock
  res_us,       \* the double TVMPlatformTimerStop writes to
  timer         \* the last timer call and the successful ones before it

regVars == <<mem, buffer_size, call, crashed>>
sessVars == <<sess, chan, starts, crossed, ev>>
rxVars == <<receive_buffer, has_complete_message, rx>>
mainVars == <<pc, input, trace, exit_code>>
timerVars == <<g_utvm_timer_running, g_utvm_start_time, now, res_us, timer>>
vars == <<regVars, sessVars, rxVars, mainVars, timerVars>>

\* what an action of one part leaves alone
nonRegVars == <<sessVars, rxVars, mainVars, timerVars>>
nonSessVars == <<regVars, mainVars, timerVars>>

MemSize == buffer_size + PtrSize

\* reg->max_functions and the offset of reg->registry.funcs in the buffer
max_functions == buffer_size \div one_entry_size_bytes
funcsOff == buffer_size - max_functions * PtrSize

\* name[k-1] of the C string: its characters, then the terminating NUL
NameAt(name, k) == IF k <= Len(name) THEN name[k] ELSE 0

\* ---------------------------------------------------------- strcmp_cursor
\* first loop: return_value is overwritten at every position compared
RECURSIVE CmpLoop(_, _, _, _, _)
CmpLoop(m, cur, name, k, rv) ==
  IF cur >= MemSize THEN [rv |-> rv, cursor |-> cur, fault |-> TRUE]
  ELSE IF m[cur] = 0 THEN [rv |-> rv, cursor |-> cur, fault |-> FALSE]
  ELSE LET n == NameAt(name, k)
           r == n - m[cur]
       IN  IF n = 0 THEN [rv |-> r, cursor |-> cur, fault |-> FALSE]
           ELSE CmpLoop(m, cur + 1, name, k + 1, r)

\* second loop: advance the cursor to the NUL ending the stored string
RECURSIVE SkipToNul(_, _)
SkipToNul(m, cur) ==
  IF cur >= MemSize THEN cur
  ELSE IF m[cur] = 0 THEN cur
  ELSE SkipToNul(m, cur + 1)

strcmp_cursor(m, cursor, name) ==
  LET a == CmpLoop(m, cursor, name, 1, 0)
  IN  IF a.fault THEN a
      ELSE LET e == SkipToNul(m, a.cursor)
           IN  [rv |-> a.rv, cursor |-> e, fault |-> e >= MemSize]

\* The for loop shared by Lookup and Set: from reg_name_ptr, compare each
\* stored string with name until one compares equal or a string starts
\* with NUL.  ptr is reg_name_ptr when the loop is left.
RECURSIVE ScanNames(_, _, _, _)
ScanNames(m, ptr, name, idx) ==
  IF ptr >= MemSize
  THEN [found |-> FALSE, idx |-> idx, ptr |-> ptr, fault |-> TRUE]
  ELSE IF m[ptr] = 0
  THEN [found |-> FALSE, idx |-> idx, ptr |-> ptr, fault |-> FALSE]
  ELSE LET c == strcmp_cursor(m, ptr, name)
       IN  IF c.fault
           THEN [found |-> FALSE, idx |-> idx, ptr |-> c.cursor, fault |-> TRUE]
           ELSE IF c.rv = 0
           THEN [found |-> TRUE, idx |-> idx, ptr |-> c.cursor, fault |-> FALSE]
           ELSE ScanNames(m, c.cursor + 1, name, idx + 1)

\* TVMFuncRegistry_Lookup: ret 0 and the index, or ret -1
TVMFuncRegistry_Lookup(m, name) ==
  LET s == ScanNames(m, 1, name, 0)
  IN  [ret |-> IF s.found THEN 0 ELSE -1,
       index |-> IF s.found THEN s.idx ELSE -1,
       fault |-> s.fault]

\* reg->funcs[i] read as PtrSize bytes; past the modelled memory it faults
LoadPtr(m, i) ==
  [k \in 1..PtrSize |->
     IF funcsOff + i * PtrSize + k - 1 < MemSize
     THEN m[funcsOff + i * PtrSize + k - 1] ELSE 0]

PtrInMemory(i) == funcsOff + (i + 1) * PtrSize <= MemSize

\* TVMFuncRegistry_GetByIndex
TVMFuncRegistry_GetByIndex(m, function_index) ==
  IF function_index >= m[0]
  THEN [ret |-> -1, func |-> <<>>, fault |-> FALSE]
  ELSE [ret |-> 0, func |-> LoadPtr(m, function_index),
        fault |-> ~PtrInMemory(function_index)]

\* reg->registry.funcs[idx] = func
StorePtr(m, idx, func) ==
  [a \in DOMAIN m |->
     IF a >= funcsOff + idx * PtrSize /\ a < funcsOff + (idx + 1) * PtrSize
     THEN func[a - (funcsOff + idx * PtrSize) + 1] ELSE m[a]]

\* strcpy(reg_name_ptr, name); reg_name_ptr += name_len + 1; *reg_name_ptr = 0
StoreName(m, ptr, name) ==
  [a \in DOMAIN m |->
     IF a >= ptr /\ a < ptr + Len(name) THEN name[a - ptr + 1]
     ELSE IF a = ptr + Len(name) \/ a = ptr + Len(name) + 1 THEN 0
     ELSE m[a]]

\* the capacity test of Set, true when Set gives up
CapacityExceeded(idx, ptr, name_len) ==
  idx > max_functions \/ ptr + name_len > funcsOff

\* TVMMutableFuncRegistry_Set with the name copied before the capacity test:
\* a Set that fails for lack of room leaves the name's bytes behind.
Set_CopyBeforeCheck(m, name, func, override) ==
  LET s == ScanNames(m, 1, name, 0)
      Fail(why, after) == [ret |-> -1, mem |-> after, slot |-> -1,
                           nameAt |-> -1, fault |-> FALSE, path |-> why]
  IN  IF s.fault THEN [Fail("fault", m) EXCEPT !.fault = TRUE]
      ELSE IF s.found
      THEN IF override = 0
           THEN Fail("collision", m)
           ELSE [ret |-> 0, mem |-> StorePtr(m, s.idx, func), slot |-> s.idx,
                 nameAt |-> -1, fault |-> FALSE, path |-> "override"]
      ELSE IF CapacityExceeded(s.idx, s.ptr, Len(name))
      THEN Fail("capacity",
                [a \in DOMAIN m |->
                   IF a >= s.ptr /\ a < s.ptr + Len(name)
                   THEN name[a - s.ptr + 1] ELSE m[a]])
      ELSE LET m1 == StoreName(m, s.ptr, name)
               m2 == StorePtr(m1, s.idx, func)
               m3 == [m2 EXCEPT ![0] = (m2[0] + 1) % 256]
           IN  [ret |-> 0, mem |-> m3, slot |-> s.idx, nameAt |-> s.ptr,
                fault |-> FALSE, path |-> "insert"]

\* TVMMutableFuncRegistry_Set: the return value, the memory it leaves, and
\* which path it took.  slot is the index of the pointer slot written (-1
\* when none), nameAt the offset the name was copied to (-1 when none).
TVMMutableFuncRegistry_Set(m, name, func, override) ==
  LET s == ScanNames(m, 1, name, 0)
      Fail(why) == [ret |-> -1, mem |-> m, slot |-> -1, nameAt |-> -1,
                    fault |-> FALSE, path |-> why]
  IN  IF s.fault THEN [Fail("fault") EXCEPT !.fault = TRUE]
      ELSE IF s.found
      THEN IF override = 0
           THEN Fail("collision")
           ELSE [ret |-> 0, mem |-> StorePtr(m, s.idx, func), slot |-> s.idx,
                 nameAt |-> -1, fault |-> FALSE, path |-> "override"]
      ELSE IF CapacityExceeded(s.idx, s.ptr, Len(name))
      THEN Fail("capacity")
      ELSE LET m1 == StoreName(m, s.ptr, name)
               m2 == StorePtr(m1, s.idx, func)
               m3 == [m2 EXCEPT ![0] = (m2[0] + 1) % 256]
           IN  [ret |-> 0, mem |-> m3, slot |-> s.idx, nameAt |-> s.ptr,
                fault |-> FALSE, path |-> "insert"]

\* --------------------------------------------------------------- actions
\* what the buffer and the memory after it hold before Create
Garbage == {0, 170}

NoCall == [op |-> "Create", name |-> <<>>, func |-> <<>>, index |-> -1,
           ret |-> 0, path |-> "create", slot |-> -1, nameAt |-> -1]

\* TVMMutableFuncRegistry_Create: only buffer[0] and buffer[1] are written
Create(size, g) ==
  /\ buffer_size = size
  /\ mem = [a \in 0..(size + PtrSize - 1) |-> IF a < 2 THEN 0 ELSE g]
  /\ call = NoCall
  /\ crashed = FALSE

\* A store to funcs[idx] past the end of the buffer is undefined: the
\* adjacent bytes end up holding the pointer, or whatever their owner has.
AfterStore(r) ==
  IF r.slot >= max_functions
  THEN {r.mem} \cup
       {[a \in DOMAIN r.mem |-> IF a >= buffer_size THEN g ELSE r.mem[a]] :
          g \in Garbage}
  ELSE {r.mem}

Set(name, func, override) ==
  /\ ~crashed
  /\ \E r \in {TVMMutableFuncRegistry_Set(mem, name, func, override)} :
       /\ r.path = "insert" => mem[0] < MaxCount
       /\ mem' \in AfterStore(r)
       /\ crashed' = r.fault
       /\ call' = [op |-> "Set", name |-> name, func |-> func, index |-> -1,
                   ret |-> r.ret, path |-> r.path, slot |-> r.slot,
                   nameAt |-> r.nameAt]
  /\ UNCHANGED <<buffer_size, nonRegVars>>

Lookup(name) ==
  /\ ~crashed
  /\ \E r \in {TVMFuncRegistry_Lookup(mem, name)} :
       /\ crashed' = r.fault
       /\ call' = [NoCall EXCEPT !.op = "Lookup", !.name = name,
                   !.index = r.index, !.ret = r.ret, !.path = "lookup"]
  /\ UNCHANGED <<mem, buffer_size, nonRegVars>>

GetByIndex(i) ==
  /\ ~crashed
  /\ \E r \in {TVMFuncRegistry_GetByIndex(mem, i)} :
       /\ crashed' = r.fault
       /\ call' = [NoCall EXCEPT !.op = "GetByIndex", !.index = i,
                   !.func = r.func, !.ret = r.ret, !.path = "get"]
  /\ UNCHANGED <<mem, buffer_size, nonRegVars>>

RegInit == \E size \in BufSizes, g \in Garbage : Create(size, g)

\* ---------------------------------------------------------------- session
\* enum class State
kReset == 0
kStartSessionSent == 1
kSessionEstablished == 2

Sides == {"A", "B"}
Peer(s) == IF s = "A" THEN "B" ELSE "A"

\* Session::Session: nonce_{initial_session_nonce}, state_{kReset},
\* session_id_{0}
NewSession(initial_session_nonce) ==
  [state |-> kReset, nonce |-> initial_session_nonce, session_id |-> 0]

\* IsEstablished comparing against the wrong enumerator
IsEstablished_WrongState(s) == sess[s].state = kStartSessionSent

\* Session::IsEstablished
IsEstablished(s) == sess[s].state = kSessionEstablished

\* The session id of an initiator nonce and a responder nonce: the two
\* bytes side by side in 16 bits.
SessionId(init, resp) == init + 256 * resp

\* enum class MessageType
kStartSessionMessage == 0
kLogMessage == 1
kNormalTraffic == 16
MessageTypes == {kStartSessionMessage, kLogMessage, kNormalTraffic}

\* sizeof(SessionHeader): uint16_t session_id, then the one-byte
\* message_type, packed
kHeaderSize == 3

\* A payload as the framer carries it: the session header, session_id least
\* significant byte first, then the body.
Frame(session_id, message_type, body) ==
  <<session_id % 256, session_id \div 256, message_type>> \o body

\* The header read back from a payload of at least kHeaderSize bytes; init
\* and resp are the two nonces the session id is made of.
Header(payload) ==
  LET id == payload[1] + 256 * payload[2]
  IN  [session_id |-> id, init |-> id % 256, resp |-> id \div 256,
       message_type |-> payload[3]]

\* A packet in flight: its payload, and whether the receiving framer will
\* find its CRC good.
Packet(payload, is_valid) == [payload |-> payload, valid |-> is_valid]

StartMsg(init, resp) ==
  Packet(Frame(SessionId(init, resp), kStartSessionMessage, <<>>), TRUE)

Event(op, s) ==
  [op |-> op, side |-> s, from |-> sess[s].state, reboot |-> ev.reboot]

\* Session::RegenerateNonce: the next non-zero nonce
RegenerateNonce(n) == (n % MaxNonce) + 1

\* Session::StartSession: new nonce, state StartSessionSent, and a start
\* request carrying the nonce (no responder nonce yet) is sent.
StartSession(s) ==
  /\ starts < MaxStarts
  /\ \E n \in {RegenerateNonce(sess[s].nonce)} :
       /\ sess' = [sess EXCEPT ![s].nonce = n, ![s].state = kStartSessionSent]
       /\ chan' = [chan EXCEPT ![Peer(s)] = Append(@, StartMsg(n, 0))]
  /\ starts' = starts + 1
  /\ ev' = Event("StartSession", s)
  /\ UNCHANGED <<crossed, rxVars, nonSessVars>>

\* Side s is reset (a device reboot): its Session is constructed anew with
\* some initial nonce, and StartSession() is called on it.  What is in flight
\* stays in flight, and the peer is not told.
Restart(s) ==
  /\ starts < MaxStarts
  /\ \E n0 \in 0..MaxNonce :
       \E n \in {RegenerateNonce(NewSession(n0).nonce)} :
         /\ sess' = [sess EXCEPT ![s] = [NewSession(n0) EXCEPT
                                          !.nonce = n,
                                          !.state = kStartSessionSent]]
         /\ chan' = [chan EXCEPT ![Peer(s)] = Append(@, StartMsg(n, 0))]
  /\ starts' = starts + 1
  /\ ev' = [Event("Restart", s) EXCEPT
             !.reboot = @ \/ (IsEstablished("A") /\ IsEstablished("B"))]
  /\ UNCHANGED <<crossed, rxVars, nonSessVars>>

\* Session::SendSessionStartReply: answer a start request with the own
\* nonce; the session is then established under the id of the two nonces.
SendSessionStartReply(s, header) ==
  /\ sess' = [sess EXCEPT ![s].state = kSessionEstablished,
                          ![s].session_id = SessionId(header.init, sess[s].nonce)]
  /\ chan' = [chan EXCEPT ![s] = Tail(@),
                          ![Peer(s)] = Append(@, StartMsg(header.init,
                                                          sess[s].nonce))]

\* ProcessStartSession answering a start request only while no session is
\* established
ProcessStartSession_DeafWhenEstablished(s, header) ==
  IF header.resp = 0 /\ sess[s].state # kSessionEstablished
  THEN /\ SendSessionStartReply(s, header)
       /\ crossed' = (crossed \/ sess[s].state = kStartSessionSent)
  ELSE /\ chan' = [chan EXCEPT ![s] = Tail(@)]
       /\ crossed' = crossed
       /\ IF sess[s].state = kStartSessionSent /\ header.init = sess[s].nonce
             /\ header.resp # 0
          THEN sess' = [sess EXCEPT ![s].state = kSessionEstablished,
                          ![s].session_id = SessionId(header.init, header.resp)]
          ELSE sess' = sess

\* Session::ProcessStartSession: a request is always answered; a reply that
\* acknowledges the pending nonce establishes the session; any other reply
\* is dropped.
ProcessStartSession(s, header) ==
  IF header.resp = 0
  THEN /\ SendSessionStartReply(s, header)
       /\ crossed' = (crossed \/ sess[s].state = kStartSessionSent)
  ELSE /\ chan' = [chan EXCEPT ![s] = Tail(@)]
       /\ crossed' = crossed
       /\ IF sess[s].state = kStartSessionSent /\ header.init = sess[s].nonce
          THEN sess' = [sess EXCEPT ![s].state = kSessionEstablished,
                          ![s].session_id = SessionId(header.init, header.resp)]
          ELSE sess' = sess

\* SessionReceiver::PacketDone(true) for a kStartSessionMessage: the next
\* message in flight to side s is handed to ProcessStartSession.
Deliver(s) ==
  /\ chan[s] # <<>>
  /\ ProcessStartSession(s, Header(Head(chan[s]).payload))
  /\ ev' = Event("Deliver", s)
  /\ UNCHANGED <<starts, rxVars, nonSessVars>>

NoEvent == [op |-> "none", side |-> "A", from |-> kReset, reboot |-> FALSE]

NoRx == [op |-> "none", ret |-> 0, error |-> "none", called_back |-> FALSE,
         message_type |-> kStartSessionMessage]

\* Session::Session for both sides with the given initial nonces; side A's
\* receive buffer is cleared and holds no complete message.
Sessions(a, b) ==
  /\ sess = [s \in Sides |-> NewSession(IF s = "A" THEN a ELSE b)]
  /\ chan = [s \in Sides |-> <<>>]
  /\ starts = 0
  /\ crossed = FALSE
  /\ ev = NoEvent
  /\ receive_buffer = <<>>
  /\ has_complete_message = FALSE
  /\ rx = NoRx

SessInit == \E a \in 0..MaxNonce, b \in 0..MaxNonce : Sessions(a, b)

NoTimerCall == [op |-> "none", ret |-> 0, log |-> <<>>]

\* main.cc as main() reaches its loop: nothing read, nothing fed, the
\* timer's globals as initialised, the clock at its first tick, and the
\* double that TVMPlatformTimerStop is to write not yet written (-1).
HostIdle ==
  /\ pc = "read" /\ input = <<>> /\ trace = <<>> /\ exit_code = -1
  /\ g_utvm_timer_running = 0 /\ g_utvm_start_time = 0
  /\ now = 1 /\ res_us = -1 /\ timer = NoTimerCall

\* The registry on its own: the sessions stay as constructed.
Init == RegInit /\ Sessions(0, 0) /\ HostIdle

Next ==
  \/ \E name \in Names, func \in Funcs, override \in {0, 1} :
       Set(name, func, override)
  \/ \E name \in Names : Lookup(name)
  \/ \E i \in 0..MaxCount : GetByIndex(i)

Spec == Init /\ [][Next]_vars

\* The two sessions on their own: the registry stays as created.
SessionInit == Create(BufSize, 0) /\ SessInit /\ HostIdle

SessionNext ==
  \/ \E s \in Sides : StartSession(s)
  \/ \E s \in Sides : Restart(s)
  \/ \E s \in Sides : Deliver(s)

SessionSpec == SessionInit /\ [][SessionNext]_vars

\* The transport is reliable: a message in flight is delivered.
SessionFairSpec ==
  /\ SessionSpec
  /\ \A s \in Sides : WF_vars(Deliver(s))

\* ------------------------------------------- one side's receive and send
\* Side A's Session with its receiver, driven by its framer (Write,
\* PacketDone) and by its owner (StartSession, SendMessage,
\* ClearReceiveBuffer).  chan["A"] holds the packet the framer is unpacking:
\* the payload bytes it has not yet written, and the verdict it will give.
\* chan["B"] holds what side A has sent.
Dut == "A"

\* the payloads that arrive: start requests and start replies, log and
\* normal messages with and without a body, and payloads shorter than a
\* session header
StartPayloads ==
  {Frame(SessionId(n, r), kStartSessionMessage, <<>>) :
     n \in 1..2, r \in 0..1}
DataPayloads ==
  {Frame(SessionId(1, 1), t, body) :
     t \in {kLogMessage, kNormalTraffic}, body \in {<<>>, <<7>>}}
ShortPayloads == {<<>>, <<1>>, <<1, 1>>}
Packets ==
  {Packet(payload, is_valid) :
     payload \in StartPayloads \cup DataPayloads \cup ShortPayloads,
     is_valid \in BOOLEAN}
Bodies == {<<>>, <<7>>}

\* The framer starts on the next packet from the transport.
Arrive(packet) ==
  /\ chan[Dut] = <<>> /\ chan[Peer(Dut)] = <<>>
  /\ chan' = [chan EXCEPT ![Dut] = <<packet>>]
  /\ ev' = Event("Arrive", Dut)
  /\ UNCHANGED <<sess, starts, crossed, rxVars, nonSessVars>>

\* The transport takes what side A sent.
Transmit ==
  /\ chan[Peer(Dut)] # <<>>
  /\ chan' = [chan EXCEPT ![Peer(Dut)] = Tail(@)]
  /\ ev' = Event("Transmit", Dut)
  /\ UNCHANGED <<sess, starts, crossed, rxVars, nonSessVars>>

\* Write appending whether or not a complete message is held
Write_OverHeldMessage ==
  /\ chan[Dut] # <<>> /\ Head(chan[Dut]).payload # <<>>
  /\ chan' = [chan EXCEPT ![Dut] = <<[Head(@) EXCEPT !.payload = <<>>]>>]
  /\ receive_buffer' = receive_buffer \o Head(chan[Dut]).payload
  /\ rx' = [NoRx EXCEPT !.op = "Write"]
  /\ ev' = Event("Write", Dut)
  /\ UNCHANGED <<sess, starts, crossed, has_complete_message, nonSessVars>>

\* SessionReceiver::Write: the framer hands over the packet's payload bytes.
\* They are appended to the receive buffer, unless it holds a complete
\* message: then they are refused, and the framer gives the packet up.
Write ==
  /\ chan[Dut] # <<>> /\ Head(chan[Dut]).payload # <<>>
  /\ IF has_complete_message
     THEN /\ chan' = [chan EXCEPT ![Dut] = Tail(@)]
          /\ receive_buffer' = receive_buffer
          /\ rx' = [NoRx EXCEPT !.op = "Write", !.ret = -1, !.error = "busy"]
     ELSE /\ chan' = [chan EXCEPT ![Dut] = <<[Head(@) EXCEPT !.payload = <<>>]>>]
          /\ receive_buffer' = receive_buffer \o Head(chan[Dut]).payload
          /\ rx' = [NoRx EXCEPT !.op = "Write"]
  /\ ev' = Event("Write", Dut)
  /\ UNCHANGED <<sess, starts, crossed, has_complete_message, nonSessVars>>

\* log messages handed to the callback in every state
Forwarded_LogInAnyState(state, message_type) ==
  \/ state = kSessionEstablished
  \/ message_type = kLogMessage

\* every message handed to the callback
Forwarded_Always(state, message_type) == TRUE

\* Whether a valid message that is not part of the handshake is handed to
\* the callback: when the session is established, or when it is a log
\* message (which needs no established session) and the session is not in
\* Reset.
Forwarded(state, message_type) ==
  \/ state = kSessionEstablished
  \/ message_type = kLogMessage /\ state # kReset

\* dropping the packet but leaving its bytes in the receive buffer
Dropped_BytesLeft(why) ==
  /\ chan' = [chan EXCEPT ![Dut] = Tail(@)]
  /\ rx' = [NoRx EXCEPT !.op = "PacketDone", !.error = why]
  /\ UNCHANGED <<sess, crossed, receive_buffer, has_complete_message>>

\* the packet is dropped: nothing but the receive buffer changes
Dropped(why) ==
  /\ chan' = [chan EXCEPT ![Dut] = Tail(@)]
  /\ receive_buffer' = <<>>
  /\ rx' = [NoRx EXCEPT !.op = "PacketDone", !.error = why]
  /\ UNCHANGED <<sess, crossed, has_complete_message>>

\* SessionReceiver::PacketDone(is_valid), called by the framer when it has
\* written all of the packet.
PacketDone ==
  /\ chan[Dut] # <<>> /\ Head(chan[Dut]).payload = <<>>
  /\ IF has_complete_message
     THEN \* the held message is not touched
          /\ chan' = [chan EXCEPT ![Dut] = Tail(@)]
          /\ rx' = [NoRx EXCEPT !.op = "PacketDone", !.error = "busy"]
          /\ UNCHANGED <<sess, crossed, receive_buffer, has_complete_message>>
     ELSE IF ~Head(chan[Dut]).valid
     THEN Dropped("invalid")
     ELSE IF Len(receive_buffer) < kHeaderSize
     THEN Dropped("header")
     ELSE \E header \in {Header(receive_buffer)} :
       IF header.message_type = kStartSessionMessage
       THEN /\ ProcessStartSession(Dut, header)
            /\ receive_buffer' = <<>>
            /\ rx' = [NoRx EXCEPT !.op = "PacketDone"]
            /\ UNCHANGED has_complete_message
       ELSE IF Forwarded(sess[Dut].state, header.message_type)
       THEN \* message_received_func_(context, message_type, receive_buffer_)
            /\ chan' = [chan EXCEPT ![Dut] = Tail(@)]
            /\ has_complete_message' = TRUE
            /\ rx' = [NoRx EXCEPT !.op = "PacketDone", !.called_back = TRUE,
                                  !.message_type = header.message_type]
            /\ UNCHANGED <<sess, crossed, receive_buffer>>
       ELSE Dropped("state")
  /\ ev' = Event("PacketDone", Dut)
  /\ UNCHANGED <<starts, nonSessVars>>

\* Session::ClearReceiveBuffer
ClearReceiveBuffer ==
  /\ receive_buffer' = <<>>
  /\ has_complete_message' = FALSE
  /\ rx' = [NoRx EXCEPT !.op = "ClearReceiveBuffer"]
  /\ ev' = Event("ClearReceiveBuffer", Dut)
  /\ UNCHANGED <<sess, chan, starts, crossed, nonSessVars>>

\* Session::SendMessage: normal traffic needs an established session; the
\* header carries the session id; the transport may fail to write.
SendMessage(message_type, body, written) ==
  /\ chan[Peer(Dut)] = <<>>
  /\ IF message_type = kNormalTraffic /\ ~IsEstablished(Dut)
     THEN /\ rx' = [NoRx EXCEPT !.op = "SendMessage", !.ret = -1,
                                !.error = "state",
                                !.message_type = message_type]
          /\ chan' = chan
     ELSE IF ~written
     THEN /\ rx' = [NoRx EXCEPT !.op = "SendMessage", !.ret = -1,
                                !.error = "transport",
                                !.message_type = message_type]
          /\ chan' = chan
     ELSE /\ rx' = [NoRx EXCEPT !.op = "SendMessage",
                                !.message_type = message_type]
          /\ chan' = [chan EXCEPT ![Peer(Dut)] =
                        Append(@, Packet(Frame(sess[Dut].session_id,
                                               message_type, body), TRUE))]
  /\ ev' = Event("SendMessage", Dut)
  /\ UNCHANGED <<sess, starts, crossed, receive_buffer, has_complete_message,
                 nonSessVars>>

ReceiverInit == Create(BufSize, 0) /\ Sessions(0, 0) /\ HostIdle

ReceiverNext ==
  \/ StartSession(Dut)
  \/ \E packet \in Packets : Arrive(packet)
  \/ Transmit
  \/ Write
  \/ PacketDone
  \/ ClearReceiveBuffer
  \/ \E message_type \in MessageTypes, body \in Bodies, written \in BOOLEAN :
       SendMessage(message_type, body, written)

ReceiverSpec == ReceiverInit /\ [][ReceiverNext]_vars

\* ------------------------------------------------------------ main.cc
\* the bytes stdin delivers, and what read(STDIN_FILENO, &c, 1) can return:
\* 1 and a byte, 0 at end of input, a negative value on error
Bytes == {0, 65, 255}
ReadOutcomes ==
  {[ret_code |-> 1, c |-> b] : b \in Bytes}
    \cup {[ret_code |-> 0, c |-> 0], [ret_code |-> -1, c |-> 0]}
\* what utvm_rpc_server_receive_byte can return: the bytes it consumed
Consumed == {0, 1, 2}

\* the bytes read so far
BytesRead == SelectSeq(input, LAMBDA o : o.ret_code = 1)

\* main: ret_code = read(STDIN_FILENO, &c, 1), and the two returns
MainRead(outcome) ==
  /\ pc = "read"
  /\ outcome.ret_code = 1 => Len(BytesRead) < MaxInput
  /\ input' = Append(input, outcome)
  /\ IF outcome.ret_code < 0 THEN pc' = "returned" /\ exit_code' = 2
     ELSE IF outcome.ret_code = 0 THEN pc' = "returned" /\ exit_code' = 2
     ELSE pc' = "receive" /\ exit_code' = exit_code
  /\ UNCHANGED <<trace, timerVars, regVars, sessVars, rxVars>>

\* main calling abort() after a receive_byte that consumed one byte too
MainReceiveByte_AbortAfterLoop(consumed) ==
  /\ pc = "receive"
  /\ trace' = trace \o
       <<[fn |-> "utvm_rpc_server_receive_byte", c |-> input[Len(input)].c,
          ret |-> consumed],
         [fn |-> "utvm_rpc_server_loop", c |-> 0, ret |-> 0]>>
  /\ pc' = IF consumed # 1 THEN "aborted" ELSE "read"
  /\ UNCHANGED <<input, exit_code, timerVars, regVars, sessVars, rxVars>>

\* main: if (utvm_rpc_server_receive_byte(rpc_server, c) != 1) abort();
MainReceiveByte(consumed) ==
  /\ pc = "receive"
  /\ trace' = Append(trace, [fn |-> "utvm_rpc_server_receive_byte",
                             c |-> input[Len(input)].c, ret |-> consumed])
  /\ pc' = IF consumed # 1 THEN "aborted" ELSE "loop"
  /\ UNCHANGED <<input, exit_code, timerVars, regVars, sessVars, rxVars>>

\* main: utvm_rpc_server_loop(rpc_server); and back to the read
MainLoop ==
  /\ pc = "loop"
  /\ trace' = Append(trace, [fn |-> "utvm_rpc_server_loop", c |-> 0,
                             ret |-> 0])
  /\ pc' = "read"
  /\ UNCHANGED <<input, exit_code, timerVars, regVars, sessVars, rxVars>>

MainInit == Create(BufSize, 0) /\ Sessions(0, 0) /\ HostIdle

MainNext ==
  \/ \E outcome \in ReadOutcomes : MainRead(outcome)
  \/ \E consumed \in Consumed : MainReceiveByte(consumed)
  \/ MainLoop

MainSpec == MainInit /\ [][MainNext]_vars

\* TVMPlatformTimerStart without the test of g_utvm_timer_running
TVMPlatformTimerStart_Unchecked ==
  /\ Len(timer.log) < MaxTimerLog
  /\ g_utvm_start_time' = now
  /\ g_utvm_timer_running' = 1
  /\ timer' = [op |-> "Start", ret |-> 0, log |-> Append(timer.log, "Start")]
  /\ UNCHANGED <<now, res_us, mainVars, regVars, sessVars, rxVars>>

\* TVMPlatformTimerStart
TVMPlatformTimerStart ==
  /\ Len(timer.log) < MaxTimerLog
  /\ IF g_utvm_timer_running # 0
     THEN /\ timer' = [timer EXCEPT !.op = "Start", !.ret = -1]
          /\ UNCHANGED <<g_utvm_start_time, g_utvm_timer_running>>
     ELSE /\ g_utvm_start_time' = now
          /\ g_utvm_timer_running' = 1
          /\ timer' = [op |-> "Start", ret |-> 0,
                       log |-> Append(timer.log, "Start")]
  /\ UNCHANGED <<now, res_us, mainVars, regVars, sessVars, rxVars>>

\* TVMPlatformTimerStop(&res_us)
TVMPlatformTimerStop ==
  /\ Len(timer.log) < MaxTimerLog
  /\ IF g_utvm_timer_running = 0
     THEN /\ timer' = [timer EXCEPT !.op = "Stop", !.ret = -1]
          /\ UNCHANGED <<res_us, g_utvm_timer_running>>
     ELSE /\ res_us' = now - g_utvm_start_time
          /\ g_utvm_timer_running' = 0
          /\ timer' = [op |-> "Stop", ret |-> 0,
                       log |-> Append(timer.log, "Stop")]
  /\ UNCHANGED <<now, g_utvm_start_time, mainVars, regVars, sessVars, rxVars>>

\* high_resolution_clock advances
Tick ==
  /\ now < MaxClock
  /\ now' = now + 1
  /\ timer' = [timer EXCEPT !.op = "Tick", !.ret = 0]
  /\ UNCHANGED <<g_utvm_start_time, g_utvm_timer_running, res_us, mainVars,
                 regVars, sessVars, rxVars>>

TimerInit == Create(BufSize, 0) /\ Sessions(0, 0) /\ HostIdle

TimerNext ==
  \/ TVMPlatformTimerStart
  \/ TVMPlatformTimerStop
  \/ Tick

TimerSpec == TimerInit /\ [][TimerNext]_vars

\* ------------------------------------------------- the registry's contents
\* The NUL-terminated string at offset p, and the list of names Lookup
\* scans: the strings from offset 1 up to the first one that is empty.
RECURSIVE StrAt(_, _)
StrAt(m, p) ==
  IF p >= MemSize THEN <<>>
  ELSE IF m[p] = 0 THEN <<>>
  ELSE <<m[p]>> \o StrAt(m, p + 1)

RECURSIVE NamesFrom(_, _)
NamesFrom(m, p) ==
  IF p >= MemSize THEN <<>>
  ELSE IF m[p] = 0 THEN <<>>
  ELSE <<StrAt(m, p)>> \o NamesFrom(m, p + Len(StrAt(m, p)) + 1)

StoredNames(m) == NamesFrom(m, 1)

\* offset of the end-of-list marker: one past the NUL of the last name
RECURSIVE EndOfNames(_, _)
EndOfNames(m, p) ==
  IF p >= MemSize THEN p
  ELSE IF m[p] = 0 THEN p
  ELSE EndOfNames(m, p + Len(StrAt(m, p)) + 1)

\* the indices (from 0) at which name is stored, character for character
ExactAt(m, name) ==
  {i \in 0..(Len(StoredNames(m)) - 1) : StoredNames(m)[i + 1] = name}

MinOf(S) == CHOOSE x \in S : \A y \in S : x <= y

\* no read of the scan for any modelled name leaves the modelled memory
Readable(m) == \A n \in Names : ~TVMFuncRegistry_Lookup(m, n).fault

\* ------------------------------------------------------------------ C1
\* C1: Lookup(name) returns the index of the first stored name exactly
\* equal to name, and not-found when no stored name is exactly equal.
C1_LookupFirstExactMatch ==
  (call.op = "Lookup" /\ ~crashed) =>
     IF ExactAt(mem, call.name) = {}
     THEN call.ret = -1
     ELSE call.ret = 0 /\ call.index = MinOf(ExactAt(mem, call.name))

\* ------------------------------------------------------------------ C2
\* C2: after a Set(name, f, override) that returned 0, Lookup(name) succeeds
\* with an index i and GetByIndex(i) succeeds and returns f.
C2_SetThenLookupGivesFunc ==
  (call.op = "Set" /\ call.ret = 0 /\ Readable(mem)) =>
     \E l \in {TVMFuncRegistry_Lookup(mem, call.name)} :
        /\ l.ret = 0
        /\ TVMFuncRegistry_GetByIndex(mem, l.index).ret = 0
        /\ TVMFuncRegistry_GetByIndex(mem, l.index).func = call.func

\* ------------------------------------------------------------------ C3
\* the names region and the pointer region have room for one more entry
RoomFor(m, name) ==
  /\ EndOfNames(m, 1) + Len(name) + 1 < funcsOff
  /\ m[0] < max_functions

\* C3: Set of a name not exactly equal to any stored name, with room in both
\* regions, succeeds for either override: the name becomes the new last
\* name, f is stored at index = previous function count, nothing else
\* changes.
C3_NewNameWithRoomIsAppended ==
  \A name \in Names, func \in Funcs, override \in {0, 1} :
     (~crashed /\ Readable(mem) /\ ExactAt(mem, name) = {}
        /\ RoomFor(mem, name)) =>
       \E r \in {TVMMutableFuncRegistry_Set(mem, name, func, override)} :
          /\ r.ret = 0
          /\ StoredNames(r.mem) = Append(StoredNames(mem), name)
          /\ r.slot = mem[0]
          /\ LoadPtr(r.mem, mem[0]) = func
          /\ \A j \in 0..(mem[0] - 1) : LoadPtr(r.mem, j) = LoadPtr(mem, j)

\* ------------------------------------------------------------------ C4
\* C4: every byte Set writes for a name (characters, NUL, end-of-list
\* marker) lies strictly below the first byte of the pointer array.
C4_NameBytesBelowFuncs ==
  (call.op = "Set" /\ call.path = "insert") =>
     call.nameAt + Len(call.name) + 1 < funcsOff

\* ------------------------------------------------------------------ C5
\* C5: the number of stored entries never exceeds max_functions, and every
\* function pointer Set writes lands in a slot with index < max_functions
\* lying entirely inside the caller's buffer.
C5_SlotsWithinCapacity ==
  (call.op = "Set" /\ call.slot # -1) =>
     /\ call.slot < max_functions
     /\ funcsOff + (call.slot + 1) * PtrSize <= buffer_size

\* ------------------------------------------------------------------ C6
\* C6: a Set that returns failure (name collision without override, or no
\* capacity) leaves every byte of the buffer (count, names, end-of-list
\* marker, pointers) as it was, so Lookup of the name and GetByIndex of
\* every index give what they gave before the call.
C6_FailedSetChangesNothing ==
  [][(call'.op = "Set" /\ call'.path \in {"collision", "capacity"}) =>
       /\ call'.ret = -1
       /\ mem' = mem
       /\ TVMFuncRegistry_Lookup(mem', call'.name) =
            TVMFuncRegistry_Lookup(mem, call'.name)
       /\ \A i \in 0..MaxCount :
            TVMFuncRegistry_GetByIndex(mem', i) =
              TVMFuncRegistry_GetByIndex(mem, i)]_vars

C6_Witness ==
  /\ call.op = "Set" /\ call.path = "capacity" /\ call.ret = -1
  /\ mem[0] > 0

\* ------------------------------------------------------------------ C7
\* C7: Set(name, f, override=true) on a name registered at index i replaces
\* only the pointer at index i: count, stored names, every name's index and
\* the other pointers are unchanged.
C7_OverrideTouchesOnlyOneSlot ==
  \A name \in Names, func \in Funcs :
     (~crashed /\ Readable(mem) /\ ExactAt(mem, name) # {}) =>
       \E r \in {TVMMutableFuncRegistry_Set(mem, name, func, 1)} :
          \E i \in {MinOf(ExactAt(mem, name))} :
             /\ r.ret = 0 /\ r.slot = i
             /\ r.mem[0] = mem[0]
             /\ StoredNames(r.mem) = StoredNames(mem)
             /\ \A n \in Names :
                  TVMFuncRegistry_Lookup(r.mem, n) =
                    TVMFuncRegistry_Lookup(mem, n)
             /\ \A j \in 0..(mem[0] - 1) :
                  j # i => LoadPtr(r.mem, j) = LoadPtr(mem, j)

\* ------------------------------------------------------------------ C8
\* C8: the function count byte equals the number of names in the list that
\* Lookup scans, so GetByIndex(i) succeeds exactly for i < number of names.
C8_CountIsNumberOfNames ==
  (~crashed /\ Readable(mem)) =>
     /\ mem[0] = Len(StoredNames(mem))
     /\ \A i \in 0..MaxCount :
          (TVMFuncRegistry_GetByIndex(mem, i).ret = 0) <=>
            i < Len(StoredNames(mem))

\* ------------------------------------------------------------------ C9
\* C9: once Lookup(name) has returned index i it returns i after every
\* further Set; no stored name is removed or altered; the function count
\* never decreases.
C9_AppendOnly ==
  [][(call'.op = "Set" /\ ~crashed' /\ Readable(mem) /\ Readable(mem')) =>
       /\ \A n \in Names :
            TVMFuncRegistry_Lookup(mem, n).ret = 0 =>
              TVMFuncRegistry_Lookup(mem', n) = TVMFuncRegistry_Lookup(mem, n)
       /\ Len(StoredNames(mem')) >= Len(StoredNames(mem))
       /\ SubSeq(StoredNames(mem'), 1, Len(StoredNames(mem))) =
            StoredNames(mem)
       /\ mem'[0] >= mem[0]]_vars

\* ------------------------------------------------------------------ C10
\* side A has just called StartSession(), its request is the only message
\* in flight, and B, which has no request of its own pending, holds a nonce
\* different from A's
AStartedAlone ==
  /\ sess["A"].state = kStartSessionSent
  /\ chan["B"] = <<StartMsg(sess["A"].nonce, 0)>>
  /\ chan["A"] = <<>>
  /\ sess["B"].state # kStartSessionSent
  /\ sess["B"].nonce # sess["A"].nonce
  /\ ~crossed

BothEstablishedSameId ==
  /\ chan["A"] = <<>> /\ chan["B"] = <<>>
  /\ IsEstablished("A") /\ IsEstablished("B")
  /\ sess["A"].session_id = sess["B"].session_id

JustRestarted(s) == ev.op = "Restart" /\ ev.side = s /\ ~crossed

\* the step delivers to side s a start request: a kStartSessionMessage as
\* StartSession() sends it, with no responder nonce in it yet
RequestDelivered(s) ==
  /\ ev'.op = "Deliver" /\ ev'.side = s
  /\ chan[s] # <<>>
  /\ Header(Head(chan[s]).payload).resp = 0

SendMessageCalled == ev'.op = "SendMessage"

\* the step puts one packet of the given type, stamped with the session id,
\* on the way to the peer
Sent(message_type) ==
  \E body \in Bodies :
    chan'[Peer(Dut)] =
      Append(chan[Peer(Dut)],
             Packet(Frame(sess[Dut].session_id, message_type, body), TRUE))

\* C12: SendMessage fails because of the session state exactly when the
\* message is normal traffic and the session is not established, and then
\* nothing is sent; start-session and log messages are not refused in Reset
\* or StartSessionSent, and normal traffic is not refused once the session
\* is established: unless the transport fails, the call returns 0 and the
\* message is sent.
C12_SendNeedsEstablishedOnlyForNormal ==
  [][SendMessageCalled =>
       /\ rx'.error = "state"
             <=> (rx'.message_type = kNormalTraffic
                  /\ sess[Dut].state # kSessionEstablished)
       /\ rx'.error = "state" => (rx'.ret < 0 /\ chan' = chan)
       /\ rx'.error = "none" => (rx'.ret = 0 /\ Sent(rx'.message_type))
       /\ rx'.error \in {"state", "transport", "none"}]_vars

\* normal traffic was refused while the start request was pending
C12_Witness ==
  /\ ev.op = "SendMessage" /\ ev.from = kStartSessionSent
  /\ rx.op = "SendMessage" /\ rx.message_type = kNormalTraffic
  /\ rx.ret = -1 /\ rx.error = "state"

\* ------------------------------------------------------------------ C13
\* C13: receive-buffer backpressure.  The callback is invoked with the
\* complete message held; while it is held every Write returns an error,
\* and every call but ClearReceiveBuffer leaves the bytes of the message and
\* the hold as they are; ClearReceiveBuffer empties the buffer and ends the
\* hold; and a Write while no message is held returns 0 and appends its
\* bytes.
C13_HeldMessageIsProtected ==
  [][/\ (ev'.op = "PacketDone" /\ rx'.called_back)
          => (has_complete_message' /\ receive_buffer' = receive_buffer
              /\ Len(receive_buffer) >= kHeaderSize)
     /\ (has_complete_message /\ ev'.op = "Write") => rx'.ret < 0
     /\ (has_complete_message /\ ev'.op # "ClearReceiveBuffer")
          => (receive_buffer' = receive_buffer /\ has_complete_message')
     /\ ev'.op = "ClearReceiveBuffer"
          => (receive_buffer' = <<>> /\ ~has_complete_message')
     /\ (~has_complete_message /\ ev'.op = "Write")
          => /\ rx'.ret = 0
             /\ ~has_complete_message'
             /\ receive_buffer' = receive_buffer \o Head(chan[Dut]).payload
             /\ Len(receive_buffer') > Len(receive_buffer)]_vars

\* a Write has just been refused because a message is held
C13_Witness ==
  /\ ev.op = "Write" /\ rx.op = "Write" /\ rx.ret = -1
  /\ has_complete_message
  /\ Len(receive_buffer) >= kHeaderSize
  /\ Header(receive_buffer).message_type # kStartSessionMessage

\* ------------------------------------------------------------------ C14
\* the step is PacketDone for a packet whose bytes went into the receive
\* buffer, and the packet is reported invalid or is shorter than a session
\* header
BadPacketDone ==
  /\ ev'.op = "PacketDone"
  /\ ~has_complete_message
  /\ chan[Dut] # <<>>
  /\ ~Head(chan[Dut]).valid \/ Len(receive_buffer) < kHeaderSize

\* C14: a packet reported invalid, or too short for the session header, is
\* dropped: the callback is not invoked, nothing is sent in answer, the
\* receive buffer is empty and holds no message (so the next Write is
\* accepted), and the session's state, nonce and session id are unchanged.
C14_BadPacketIsDropped ==
  [][BadPacketDone =>
       /\ ~rx'.called_back
       /\ receive_buffer' = <<>> /\ ~has_complete_message'
       /\ sess' = sess
       /\ chan'[Peer(Dut)] = chan[Peer(Dut)]
       /\ chan'[Dut] = <<>>]_vars

\* a short packet has just been dropped by an established session
C14_Witness ==
  /\ ev.op = "PacketDone" /\ ev.from = kSessionEstablished
  /\ rx.error = "header" /\ ~rx.called_back
  /\ IsEstablished(Dut) /\ receive_buffer = <<>>

\* ------------------------------------------------------------------ C15
\* the step is PacketDone(true) for a packet that is in the receive buffer
\* with at least a whole session header
GoodPacketDone ==
  /\ ev'.op = "PacketDone"
  /\ ~has_complete_message
  /\ chan[Dut] # <<>>
  /\ Head(chan[Dut]).valid /\ Len(receive_buffer) >= kHeaderSize

ReceivedType == Header(receive_buffer).message_type

StartSessionCalled(s) == ev'.op = "StartSession" /\ ev'.side = s

CallsInOrder ==
  \A i \in 1..Len(trace) :
    IF i % 2 = 1
    THEN /\ trace[i].fn = "utvm_rpc_server_receive_byte"
         /\ trace[i].c = BytesRead[(i + 1) \div 2].c
         /\ i < Len(trace) => trace[i].ret = 1
    ELSE trace[i].fn = "utvm_rpc_server_loop"

\* how many calls have been made when main() is at pc, n bytes read
CallsMade(n) ==
  CASE pc \in {"read", "returned"} -> 2 * n
    [] pc = "receive" -> 2 * (n - 1)
    [] pc \in {"loop", "aborted"} -> 2 * (n - 1) + 1

\* C18: main() feeds the bytes in the order read, each to receive_byte once
\* and then the loop function once, before the next read; the first read
\* that fails or finds the input ended makes it return 2 with nothing more
\* fed; a receive_byte that does not return 1 makes it abort with the loop
\* function not called; and after either it does nothing more.
C18_MainFeedsInOrder ==
  /\ [](/\ CallsInOrder
        /\ Len(trace) = CallsMade(Len(BytesRead))
        /\ \A i \in 1..Len(input) : i < Len(input) => input[i].ret_code = 1
        /\ pc = "returned" <=> (input # <<>> /\ input[Len(input)].ret_code <= 0)
        /\ exit_code = IF pc = "returned" THEN 2 ELSE -1
        /\ pc = "aborted"
             <=> /\ trace # <<>>
                 /\ trace[Len(trace)].fn = "utvm_rpc_server_receive_byte"
                 /\ trace[Len(trace)].ret # 1)
  /\ [][pc \notin {"returned", "aborted"}]_vars

\* two different bytes were fed, each followed by the loop function, and
\* then the input ended
C18_Witness ==
  /\ pc = "returned" /\ exit_code = 2
  /\ Len(BytesRead) = 2 /\ BytesRead[1].c # BytesRead[2].c
  /\ Len(trace) = 4 /\ trace[3].c = BytesRead[2].c

\* ------------------------------------------------------------------ C19
\* the successful calls so far alternate, beginning with a Start
Alternating ==
  \A i \in 1..Len(timer.log) :
    timer.log[i] = IF i % 2 = 1 THEN "Start" ELSE "Stop"

\* C19: TVMPlatformTimerStart returns 0 exactly when the timer is not
\* running, and then it is running; TVMPlatformTimerStop returns 0 exactly
\* when it is running, and then it is stopped and the elapsed time is
\* written; a call that returns -1 changes neither the flag nor the start
\* time nor the output; so the successful calls alternate, beginning with
\* a Start.
C19_TimerStartStopAlternate ==
  /\ [](Alternating /\ g_utvm_timer_running \in {0, 1}
        /\ (g_utvm_timer_running = 1 <=> Len(timer.log) % 2 = 1))
  /\ [][/\ timer'.op = "Start" =>
            /\ timer'.ret = 0 <=> g_utvm_timer_running = 0
            /\ timer'.ret \in {0, -1}
            /\ timer'.ret = 0 => (g_utvm_timer_running' = 1
                                  /\ g_utvm_start_time' = now)
            /\ res_us' = res_us
        /\ timer'.op = "Stop" =>
            /\ timer'.ret = 0 <=> g_utvm_timer_running # 0
            /\ timer'.ret \in {0, -1}
            /\ timer'.ret = 0 => (g_utvm_timer_running' = 0
                                  /\ res_us' = now - g_utvm_start_time
                                  /\ res_us' >= 0)
        /\ (timer'.op \in {"Start", "Stop"} /\ timer'.ret = -1) =>
            /\ g_utvm_timer_running' = g_utvm_timer_running
            /\ g_utvm_start_time' = g_utvm_start_time
            /\ res_us' = res_us
            /\ timer'.log = timer.log]_vars

\* a second Start has just failed while the timer was running, after a
\* first round of Start and Stop
C19_Witness ==
  /\ timer.op = "Start" /\ timer.ret = -1
  /\ g_utvm_timer_running = 1
  /\ timer.log = <<"Start", "Stop", "Start">>
  /\ res_us > 0

====
